---- MODULE Spec2Model ----
(***************************************************************************)
(* Model of tools/unicode_case_conversion.py: the seven extraction stages  *)
(* of ConversionTables.__init__ over the lower-case and upper-case maps,   *)
(* the emptiness check that follows them, and the hand-over of the tables  *)
(* to the output step in main().                                           *)
(*                                                                         *)
(* A map is a function from its keys (codepoints) to sequences of          *)
(* codepoints (the mapped string).  The emitted tables are the flat        *)
(* sequences the code builds.  A Python exception (KeyError on `del`,      *)
(* UnboundLocalError on a read of an unassigned local) ends the run in     *)
(* pc = "error".                                                           *)
(***************************************************************************)
EXTENDS Integers, Sequences, FiniteSets, TLC

\* Codepoints below 128 and from 0x10000 on are skipped when the maps are read.
MinCP == 128
MaxCP == 65536

\* Bounds of the input families.
NumCP == 4
NumSpecialCP == 5
NumMixedCP == 3

VARIABLES
    lower_case,                 \* the lower-case map, mutated in place
    upper_case,                 \* the upper-case map, mutated in place
    character_case_ranges,      \* <<ranges, range_lengths>> of stage 1
    character_pair_ranges,      \* <<start_points, lengths>> of stage 2
    character_pairs,            \* flat list of stage 3
    upper_case_special_ranges,  \* <<special_ranges, special_range_lengths>> of stage 4
    lower_case_ranges,          \* <<ranges, range_lengths>> of stage 5
    lower_case_conversions,     \* <<flat list, counters>> of stage 6
    upper_case_conversions,     \* <<flat list, counters>> of stage 7
    warned,                     \* which "Not all elements extracted" warnings were issued
    generated,                  \* main() handed the tables to the output step
    err,                        \* the exception that ended the run, or "none"
    pc,                         \* the next stage of the pipeline
    snap                        \* the maps as they were when each stage began

vars == <<lower_case, upper_case, character_case_ranges, character_pair_ranges,
          character_pairs, upper_case_special_ranges, lower_case_ranges,
          lower_case_conversions, upper_case_conversions, warned, generated,
          err, pc, snap>>

tables == <<character_case_ranges, character_pair_ranges, character_pairs,
            upper_case_special_ranges, lower_case_ranges,
            lower_case_conversions, upper_case_conversions>>

----------------------------------------------------------------------------
\* Generic helpers

EmptyMap == [k \in {} |-> <<>>]

\* del m[k]
MapDel(m, k) == [x \in (DOMAIN m) \ {k} |-> m[x]]

Min(S) == CHOOSE x \in S : \A y \in S : x <= y

RECURSIVE SortedKeys(_)
\* sorted(letter_case.keys())
SortedKeys(m) ==
    IF DOMAIN m = {} THEN <<>>
    ELSE LET k == Min(DOMAIN m) IN <<k>> \o SortedKeys(MapDel(m, k))

\* ord(s) of a one-character string
Ord(s) == s[1]

----------------------------------------------------------------------------
\* is_bidirectional_conversion and calculate_conversion_distance

\* Mutant: the final test that the reverse mapping leads back to letter_id
\* is missing.
IsBidirectionalConversion_NoReturnCheck(letter_id, letter_case, reverse_letter_case) ==
    IF letter_id \notin DOMAIN letter_case THEN FALSE
    ELSE LET mapped_value == letter_case[letter_id] IN
         IF Len(mapped_value) > 1 THEN FALSE
         ELSE LET mapped_value_id == Ord(mapped_value) IN
              ~ \/ mapped_value_id \notin DOMAIN reverse_letter_case
                \/ Len(reverse_letter_case[mapped_value_id]) > 1

IsBidirectionalConversion(letter_id, letter_case, reverse_letter_case) ==
    IF letter_id \notin DOMAIN letter_case THEN FALSE
    ELSE LET mapped_value == letter_case[letter_id] IN
         IF Len(mapped_value) > 1 THEN FALSE
         ELSE LET mapped_value_id == Ord(mapped_value) IN
              IF \/ mapped_value_id \notin DOMAIN reverse_letter_case
                 \/ Len(reverse_letter_case[mapped_value_id]) > 1
              THEN FALSE
              ELSE Ord(reverse_letter_case[mapped_value_id]) = letter_id

\* Mutant: the distance is never computed, so two neighbours never differ.
CalculateConversionDistance_Dropped(letter_case, letter_id) == <<>>

\* The distance as a one-element sequence, None as the empty sequence.
CalculateConversionDistance(letter_case, letter_id) ==
    IF letter_id \notin DOMAIN letter_case \/ Len(letter_case[letter_id]) > 1
    THEN <<>>
    ELSE <<Ord(letter_case[letter_id]) - letter_id>>

----------------------------------------------------------------------------
\* Deletion loops.  A step is <<which, key>>: which = 1 deletes from
\* letter_case, which = 2 from reverse_letter_case.  The first deletion of an
\* absent key raises KeyError and ends the loop.

RECURSIVE DelSteps(_, _, _, _)
DelSteps(letter_case, reverse_letter_case, steps, i) ==
    IF i > Len(steps)
    THEN [letter_case |-> letter_case, reverse_letter_case |-> reverse_letter_case,
          err |-> "none"]
    ELSE LET which == steps[i][1]
             key == steps[i][2]
         IN IF which = 1
            THEN IF key \in DOMAIN letter_case
                 THEN DelSteps(MapDel(letter_case, key), reverse_letter_case, steps, i + 1)
                 ELSE [letter_case |-> letter_case,
                       reverse_letter_case |-> reverse_letter_case, err |-> "KeyError"]
            ELSE IF key \in DOMAIN reverse_letter_case
                 THEN DelSteps(letter_case, MapDel(reverse_letter_case, key), steps, i + 1)
                 ELSE [letter_case |-> letter_case,
                       reverse_letter_case |-> reverse_letter_case, err |-> "KeyError"]

RECURSIVE Flatten(_)
\* The concatenation of a sequence of sequences.
Flatten(ss) == IF ss = <<>> THEN <<>> ELSE Head(ss) \o Flatten(Tail(ss))

----------------------------------------------------------------------------
\* extract_ranges

\* Mutant: a range is opened with the length of one codepoint.
RangeOpenLength_One == 2 - 1

\* The length a range is opened with.
RangeOpenLength == 2

\* One iteration of the scan loop, for both modes (bidi = FALSE is the call
\* with reverse_letter_case = None).
RangesStep(st, letter_id, letter_case, reverse_letter_case, bidi) ==
    LET prev_letter_id == letter_id - 1
        skip == IF ~bidi
                THEN \/ Len(letter_case[letter_id]) > 1
                     \/ prev_letter_id \notin DOMAIN letter_case
                     \/ Len(letter_case[prev_letter_id]) > 1
                ELSE \/ ~IsBidirectionalConversion(letter_id, letter_case, reverse_letter_case)
                     \/ ~IsBidirectionalConversion(prev_letter_id, letter_case,
                                                   reverse_letter_case)
    IN IF skip THEN [st EXCEPT !.in_range = FALSE]
       ELSE IF CalculateConversionDistance(letter_case, letter_id)
                 # CalculateConversionDistance(letter_case, prev_letter_id)
            THEN [st EXCEPT !.in_range = FALSE]
       ELSE IF st.in_range
            THEN [st EXCEPT !.range_lengths[st.range_position + 1] = @ + 1]
            ELSE [in_range |-> TRUE,
                  range_position |-> st.range_position + 1,
                  ranges |-> st.ranges \o <<prev_letter_id, Ord(letter_case[prev_letter_id])>>,
                  range_lengths |-> Append(st.range_lengths, RangeOpenLength)]

RECURSIVE RangesScan(_, _, _, _, _, _)
RangesScan(st, keys, i, letter_case, reverse_letter_case, bidi) ==
    IF i > Len(keys) THEN st
    ELSE RangesScan(RangesStep(st, keys[i], letter_case, reverse_letter_case, bidi),
                    keys, i + 1, letter_case, reverse_letter_case, bidi)

\* The deletions of the removal loop, in the order the code performs them.
RangesDelSteps(ranges, range_lengths, bidi) ==
    Flatten([j \in 1..Len(range_lengths) |->
        Flatten([n \in 1..range_lengths[j] |->
            IF bidi
            THEN << <<1, ranges[2 * j - 1] + (n - 1)>>, <<2, ranges[2 * j] + (n - 1)>> >>
            ELSE << <<1, ranges[2 * j - 1] + (n - 1)>> >>])])

ExtractRanges(letter_case, reverse_letter_case, bidi) ==
    LET st == RangesScan([in_range |-> FALSE, range_position |-> -1,
                          ranges |-> <<>>, range_lengths |-> <<>>],
                         SortedKeys(letter_case), 1, letter_case, reverse_letter_case, bidi)
        d == DelSteps(letter_case, reverse_letter_case,
                      RangesDelSteps(st.ranges, st.range_lengths, bidi), 1)
    IN [letter_case |-> d.letter_case, reverse_letter_case |-> d.reverse_letter_case,
        err |-> d.err, result |-> <<st.ranges, st.range_lengths>>]

----------------------------------------------------------------------------
\* extract_character_pair_ranges

\* The length a pair range is opened with, and the step it grows by.
PairOpenLength == 2

PairRangesStep(st, letter_id, letter_case, reverse_letter_case) ==
    IF ~IsBidirectionalConversion(letter_id, letter_case, reverse_letter_case)
    THEN [st EXCEPT !.in_range = FALSE]
    ELSE IF Ord(letter_case[letter_id]) = letter_id + 1
         THEN LET prev_letter_id == letter_id - 2
                  in_range == IF ~IsBidirectionalConversion(prev_letter_id, letter_case,
                                                            reverse_letter_case)
                              THEN FALSE ELSE st.in_range
              IN IF in_range
                 THEN [st EXCEPT !.lengths[st.element_counter + 1] = @ + 2]
                 ELSE [in_range |-> TRUE,
                       element_counter |-> st.element_counter + 1,
                       start_points |-> Append(st.start_points, letter_id),
                       lengths |-> Append(st.lengths, PairOpenLength)]
         ELSE [st EXCEPT !.in_range = FALSE]

RECURSIVE PairRangesScan(_, _, _, _, _)
PairRangesScan(st, keys, i, letter_case, reverse_letter_case) ==
    IF i > Len(keys) THEN st
    ELSE PairRangesScan(PairRangesStep(st, keys[i], letter_case, reverse_letter_case),
                        keys, i + 1, letter_case, reverse_letter_case)

\* Mutant: the members of a pair range are removed from letter_case only.
PairRangesDelSteps_LowerOnly(start_points, lengths) ==
    Flatten([j \in 1..Len(start_points) |->
        [n \in 1..((lengths[j] + 1) \div 2) |-> <<1, start_points[j] + 2 * (n - 1)>>]])

\* range(0, conv_length, 2) has (conv_length + 1) \div 2 elements.
PairRangesDelSteps(start_points, lengths) ==
    Flatten([j \in 1..Len(start_points) |->
        Flatten([n \in 1..((lengths[j] + 1) \div 2) |->
            << <<1, start_points[j] + 2 * (n - 1)>>,
               <<2, start_points[j] + 1 + 2 * (n - 1)>> >>])])

ExtractCharacterPairRanges(letter_case, reverse_letter_case) ==
    LET st == PairRangesScan([in_range |-> FALSE, element_counter |-> -1,
                              start_points |-> <<>>, lengths |-> <<>>],
                             SortedKeys(letter_case), 1, letter_case, reverse_letter_case)
        d == DelSteps(letter_case, reverse_letter_case,
                      PairRangesDelSteps(st.start_points, st.lengths), 1)
    IN [letter_case |-> d.letter_case, reverse_letter_case |-> d.reverse_letter_case,
        err |-> d.err, result |-> <<st.start_points, st.lengths>>]

----------------------------------------------------------------------------
\* extract_character_pairs: the maps are mutated inside the scan loop, so they
\* are part of the loop state.

\* PairsStep without the deletion from the reverse map.
PairsStep_KeepReverse(st, letter_id) ==
    IF st.err # "none" THEN st
    ELSE IF IsBidirectionalConversion(letter_id, st.letter_case, st.reverse_letter_case)
    THEN LET mapped_value == st.letter_case[letter_id]
             d == DelSteps(st.letter_case, st.reverse_letter_case,
                           << <<1, letter_id>> >>, 1)
         IN [letter_case |-> d.letter_case, reverse_letter_case |-> d.reverse_letter_case,
             err |-> d.err,
             character_pairs |-> st.character_pairs \o <<letter_id, Ord(mapped_value)>>]
    ELSE st

PairsStep(st, letter_id) ==
    IF st.err # "none" THEN st
    ELSE IF IsBidirectionalConversion(letter_id, st.letter_case, st.reverse_letter_case)
    THEN LET mapped_value == st.letter_case[letter_id]
             d == DelSteps(st.letter_case, st.reverse_letter_case,
                           << <<1, letter_id>>, <<2, Ord(mapped_value)>> >>, 1)
         IN [letter_case |-> d.letter_case, reverse_letter_case |-> d.reverse_letter_case,
             err |-> d.err,
             character_pairs |-> st.character_pairs \o <<letter_id, Ord(mapped_value)>>]
    ELSE st

RECURSIVE PairsScan(_, _, _)
PairsScan(st, keys, i) ==
    IF i > Len(keys) THEN st ELSE PairsScan(PairsStep(st, keys[i]), keys, i + 1)

ExtractCharacterPairs(letter_case, reverse_letter_case) ==
    LET st == PairsScan([letter_case |-> letter_case,
                         reverse_letter_case |-> reverse_letter_case,
                         err |-> "none", character_pairs |-> <<>>],
                        SortedKeys(letter_case), 1)
    IN [letter_case |-> st.letter_case, reverse_letter_case |-> st.reverse_letter_case,
        err |-> st.err, result |-> st.character_pairs]

----------------------------------------------------------------------------
\* extract_special_ranges.  in_range has no value before the loop: bound says
\* whether an assignment has been executed, and a read of the unassigned
\* local raises UnboundLocalError.

\* The length a special range is opened with.
SpecialOpenLength == 1

SpecialStep(st, letter_id, letter_case) ==
    LET mapped_value == letter_case[letter_id]
        prev_letter_id == letter_id - 1
    IN IF st.err # "none" THEN st
       ELSE IF Len(mapped_value) # 2 THEN st
       ELSE IF prev_letter_id \notin DOMAIN letter_case
            THEN [st EXCEPT !.in_range = FALSE, !.bound = TRUE]
       ELSE LET prev_mapped_value == letter_case[prev_letter_id] IN
            IF Len(prev_mapped_value) # 2 THEN st
            ELSE IF prev_mapped_value[2] # mapped_value[2] THEN st
            ELSE IF (prev_mapped_value[1] - prev_letter_id) # (mapped_value[1] - letter_id)
                 THEN [st EXCEPT !.in_range = FALSE, !.bound = TRUE]
            ELSE IF ~st.bound THEN [st EXCEPT !.err = "UnboundLocalError"]
            ELSE IF st.in_range
                 THEN [st EXCEPT !.special_range_lengths[st.range_position + 1] = @ + 1]
                 ELSE [st EXCEPT
                         !.range_position = @ + 1,
                         !.in_range = TRUE,
                         !.special_ranges = @ \o <<prev_letter_id, prev_mapped_value[1],
                                                   prev_mapped_value[2]>>,
                         !.special_range_lengths = Append(@, SpecialOpenLength)]

RECURSIVE SpecialScan(_, _, _, _)
SpecialScan(st, keys, i, letter_case) ==
    IF i > Len(keys) THEN st
    ELSE SpecialScan(SpecialStep(st, keys[i], letter_case), keys, i + 1, letter_case)

SpecialDelSteps(special_ranges, special_range_lengths) ==
    Flatten([j \in 1..Len(special_range_lengths) |->
        [n \in 1..special_range_lengths[j] |-> <<1, special_ranges[3 * j - 2] + (n - 1)>>]])

ExtractSpecialRanges(letter_case) ==
    LET st == SpecialScan([in_range |-> FALSE, bound |-> FALSE, err |-> "none",
                           range_position |-> -1, special_ranges |-> <<>>,
                           special_range_lengths |-> <<>>],
                          SortedKeys(letter_case), 1, letter_case)
        d == IF st.err # "none"
             THEN [letter_case |-> letter_case, reverse_letter_case |-> EmptyMap,
                   err |-> st.err]
             ELSE DelSteps(letter_case, EmptyMap,
                           SpecialDelSteps(st.special_ranges, st.special_range_lengths), 1)
    IN [letter_case |-> d.letter_case, err |-> d.err,
        result |-> <<st.special_ranges, st.special_range_lengths>>]

----------------------------------------------------------------------------
\* extract_conversions

\* The largest output arity a bucket exists for.
MaxArity == 3

\* One of the three loops: every key whose mapped value has the given length
\* is appended with its outputs and deleted.
ConversionsBucketStep(st, letter_id, arity) ==
    LET mapped_value == st.letter_case[letter_id] IN
    IF Len(mapped_value) # arity THEN st
    ELSE [letter_case |-> MapDel(st.letter_case, letter_id),
          unicodes |-> st.unicodes \o <<letter_id>> \o mapped_value]

RECURSIVE ConversionsBucketScan(_, _, _, _)
ConversionsBucketScan(st, keys, i, arity) ==
    IF i > Len(keys) THEN st
    ELSE ConversionsBucketScan(ConversionsBucketStep(st, keys[i], arity), keys, i + 1, arity)

ConversionsBucket(letter_case, arity) ==
    ConversionsBucketScan([letter_case |-> letter_case, unicodes |-> <<>>],
                          SortedKeys(letter_case), 1, arity)

\* Mutant: every counter divides by the width of a one-to-one entry.
ConversionCounters_SameWidth(u1, u2, u3) == <<Len(u1) \div 2, Len(u2) \div 2, Len(u3) \div 2>>

\* unicode_lengths
ConversionCounters(u1, u2, u3) == <<Len(u1) \div 2, Len(u2) \div 3, Len(u3) \div 4>>

ExtractConversions(letter_case) ==
    LET b1 == ConversionsBucket(letter_case, 1)
        b2 == ConversionsBucket(b1.letter_case, 2)
        b3 == ConversionsBucket(b2.letter_case, MaxArity)
    IN [letter_case |-> b3.letter_case, err |-> "none",
        result |-> <<b1.unicodes \o b2.unicodes \o b3.unicodes,
                     ConversionCounters(b1.unicodes, b2.unicodes, b3.unicodes)>>]

----------------------------------------------------------------------------
\* The inputs: the two maps read_case_mappings returns.  Every key is a
\* codepoint from MinCP on; every value is a non-empty sequence of codepoints.

CodePoints(n) == MinCP .. (MinCP + n - 1)

\* All maps whose keys are a subset of cps and whose value at c is one of the
\* candidates Options(c).
InputMaps(cps, Options(_)) ==
    UNION { { [c \in D |-> Options(c)[p[c]]] : p \in [D -> 1..Len(Options(MinCP))] }
            : D \in SUBSET cps }

\* One-to-one mappings only, with distance 1 or 2 (lower) and -1 or -2 (upper):
\* uniform ranges, swap pairs, isolated pairs and one-way conversions.
BidiLowerOptions(c) == << <<c + 1>>, <<c + 2>> >>
BidiUpperOptions(c) == << <<c - 1>>, <<c - 2>> >>

\* An upper-case map of one-to-one, one-to-two and one-to-three mappings; the
\* one-to-two mappings differ in the distance of the first output and in the
\* second output.
SpecialUpperOptions(c) ==
    << <<c>>, <<c, MinCP>>, <<c + 1, MinCP>>, <<c, MinCP + 1>>, <<c, c, c>> >>

\* Both maps, with one to three outputs in the lower-case map and one, two or
\* four outputs (a value extract_conversions has no bucket for) in the
\* upper-case map.
MixedLowerOptions(c) == << <<c + 1>>, <<c, MinCP>>, <<c, c, c>> >>
MixedUpperOptions(c) == << <<c - 1>>, <<c, MinCP>>, <<c, c, c, c>> >>

NoTable == << <<>>, <<>> >>

InitWith(lower, upper) ==
    /\ lower_case = lower
    /\ upper_case = upper
    /\ character_case_ranges = NoTable
    /\ character_pair_ranges = NoTable
    /\ character_pairs = <<>>
    /\ upper_case_special_ranges = NoTable
    /\ lower_case_ranges = NoTable
    /\ lower_case_conversions = NoTable
    /\ upper_case_conversions = NoTable
    /\ warned = {}
    /\ generated = FALSE
    /\ err = "none"
    /\ pc = "extract_ranges"
    /\ snap = <<>>

\* The upper-case keys of this family start one codepoint later, so that
\* every upper-case value is itself a possible lower-case key.
InitBidi ==
    \E lower \in InputMaps(CodePoints(NumCP), BidiLowerOptions),
       upper \in InputMaps((MinCP + 1) .. (MinCP + NumCP), BidiUpperOptions) :
        InitWith(lower, upper)

InitSpecial ==
    \E upper \in InputMaps(CodePoints(NumSpecialCP), SpecialUpperOptions) :
        InitWith(EmptyMap, upper)

InitMixed ==
    \E lower \in InputMaps(CodePoints(NumMixedCP), MixedLowerOptions),
       upper \in InputMaps(CodePoints(NumMixedCP), MixedUpperOptions) : InitWith(lower, upper)

Init == InitBidi \/ InitSpecial \/ InitMixed

----------------------------------------------------------------------------
\* ConversionTables.__init__: the seven stages in order.  A stage that raises
\* assigns no table and ends the run.

Snapshot == Append(snap, [lower |-> lower_case, upper |-> upper_case])

AfterStage(r, next) ==
    /\ err' = r.err
    /\ pc' = IF r.err = "none" THEN next ELSE "error"
    /\ snap' = Snapshot
    /\ UNCHANGED <<warned, generated>>

StageCharacterCaseRanges ==
    /\ pc = "extract_ranges"
    /\ LET r == ExtractRanges(lower_case, upper_case, TRUE) IN
        /\ lower_case' = r.letter_case
        /\ upper_case' = r.reverse_letter_case
        /\ character_case_ranges' = IF r.err = "none" THEN r.result ELSE NoTable
        /\ AfterStage(r, "extract_character_pair_ranges")
    /\ UNCHANGED <<character_pair_ranges, character_pairs, upper_case_special_ranges,
                   lower_case_ranges, lower_case_conversions, upper_case_conversions>>

StageCharacterPairRanges ==
    /\ pc = "extract_character_pair_ranges"
    /\ LET r == ExtractCharacterPairRanges(lower_case, upper_case) IN
        /\ lower_case' = r.letter_case
        /\ upper_case' = r.reverse_letter_case
        /\ character_pair_ranges' = IF r.err = "none" THEN r.result ELSE NoTable
        /\ AfterStage(r, "extract_character_pairs")
    /\ UNCHANGED <<character_case_ranges, character_pairs, upper_case_special_ranges,
                   lower_case_ranges, lower_case_conversions, upper_case_conversions>>

StageCharacterPairs ==
    /\ pc = "extract_character_pairs"
    /\ LET r == ExtractCharacterPairs(lower_case, upper_case) IN
        /\ lower_case' = r.letter_case
        /\ upper_case' = r.reverse_letter_case
        /\ character_pairs' = IF r.err = "none" THEN r.result ELSE <<>>
        /\ AfterStage(r, "extract_special_ranges")
    /\ UNCHANGED <<character_case_ranges, character_pair_ranges, upper_case_special_ranges,
                   lower_case_ranges, lower_case_conversions, upper_case_conversions>>

StageUpperCaseSpecialRanges ==
    /\ pc = "extract_special_ranges"
    /\ LET r == ExtractSpecialRanges(upper_case) IN
        /\ upper_case' = r.letter_case
        /\ upper_case_special_ranges' = IF r.err = "none" THEN r.result ELSE NoTable
        /\ AfterStage(r, "extract_lower_ranges")
    /\ UNCHANGED <<lower_case, character_case_ranges, character_pair_ranges, character_pairs,
                   lower_case_ranges, lower_case_conversions, upper_case_conversions>>

StageLowerCaseRanges ==
    /\ pc = "extract_lower_ranges"
    /\ LET r == ExtractRanges(lower_case, EmptyMap, FALSE) IN
        /\ lower_case' = r.letter_case
        /\ lower_case_ranges' = IF r.err = "none" THEN r.result ELSE NoTable
        /\ AfterStage(r, "extract_lower_conversions")
    /\ UNCHANGED <<upper_case, character_case_ranges, character_pair_ranges, character_pairs,
                   upper_case_special_ranges, lower_case_conversions, upper_case_conversions>>

StageLowerCaseConversions ==
    /\ pc = "extract_lower_conversions"
    /\ LET r == ExtractConversions(lower_case) IN
        /\ lower_case' = r.letter_case
        /\ lower_case_conversions' = r.result
        /\ AfterStage(r, "extract_upper_conversions")
    /\ UNCHANGED <<upper_case, character_case_ranges, character_pair_ranges, character_pairs,
                   upper_case_special_ranges, lower_case_ranges, upper_case_conversions>>

StageUpperCaseConversions ==
    /\ pc = "extract_upper_conversions"
    /\ LET r == ExtractConversions(upper_case) IN
        /\ upper_case' = r.letter_case
        /\ upper_case_conversions' = r.result
        /\ AfterStage(r, "check")
    /\ UNCHANGED <<lower_case, character_case_ranges, character_pair_ranges, character_pairs,
                   upper_case_special_ranges, lower_case_ranges, lower_case_conversions>>

\* Mutant: only the lower-case map is tested.
CheckAllExtracted_LowerOnly ==
    /\ pc = "check"
    /\ warned' = (IF DOMAIN lower_case # {} THEN {"lowercase"} ELSE {})
    /\ pc' = "main"
    /\ UNCHANGED <<lower_case, upper_case, tables, generated, err, snap>>

\* The two `if lower_case:` / `if upper_case:` tests: a non-empty map is
\* reported with warnings.warn and the constructor returns normally.
CheckAllExtracted ==
    /\ pc = "check"
    /\ warned' = (IF DOMAIN lower_case # {} THEN {"lowercase"} ELSE {})
                   \cup (IF DOMAIN upper_case # {} THEN {"uppercase"} ELSE {})
    /\ pc' = "main"
    /\ UNCHANGED <<lower_case, upper_case, tables, generated, err, snap>>

\* main(): the getters, the add_table calls and c_source.generate().
MainGenerate ==
    /\ pc = "main"
    /\ generated' = TRUE
    /\ pc' = "done"
    /\ UNCHANGED <<lower_case, upper_case, tables, warned, err, snap>>

Next ==
    \/ StageCharacterCaseRanges
    \/ StageCharacterPairRanges
    \/ StageCharacterPairs
    \/ StageUpperCaseSpecialRanges
    \/ StageLowerCaseRanges
    \/ StageLowerCaseConversions
    \/ StageUpperCaseConversions
    \/ CheckAllExtracted
    \/ MainGenerate

Spec == Init /\ [][Next]_vars

\* The same program on one family of inputs.
SpecBidi == InitBidi /\ [][Next]_vars
SpecSpecial == InitSpecial /\ [][Next]_vars
SpecMixed == InitMixed /\ [][Next]_vars

TypeOK ==
    /\ pc \in {"extract_ranges", "extract_character_pair_ranges", "extract_character_pairs",
               "extract_special_ranges", "extract_lower_ranges", "extract_lower_conversions",
               "extract_upper_conversions", "check", "main", "done", "error"}
    /\ err \in {"none", "KeyError", "UnboundLocalError"}
    /\ (pc = "error") = (err # "none")
    /\ generated \in BOOLEAN
    /\ warned \subseteq {"lowercase", "uppercase"}

----------------------------------------------------------------------------
\* Reading the emitted tables.  A range table is <<flat, lengths>> with two
\* (three, for special ranges) flat elements per entry.

\* The maps as they were when stage k began.
LowerAt(k) == snap[k].lower
UpperAt(k) == snap[k].upper

\* m maps c to exactly the value v.
Maps(m, c, v) == c \in DOMAIN m /\ m[c] = v

\* Every entry (start, mapped_start, length) of a range table agrees with m.
RangeRoundTrip(t, m) ==
    \A j \in 1..Len(t[2]) : \A i \in 0..(t[2][j] - 1) :
        Maps(m, t[1][2 * j - 1] + i, <<t[1][2 * j] + i>>)

\* C3: every range of character_case_ranges and of lower_case_ranges maps
\* start+i to the single codepoint mapped_start+i in the map as it was when
\* that extract_ranges call began.
C3_RangeRoundTrip ==
    /\ Len(snap) >= 1 => RangeRoundTrip(character_case_ranges, LowerAt(1))
    /\ Len(snap) >= 5 => RangeRoundTrip(lower_case_ranges, LowerAt(5))

\* A run that emitted a range in both modes.
C3_Witness ==
    /\ pc = "done"
    /\ Len(character_case_ranges[2]) >= 1
    /\ Len(lower_case_ranges[2]) >= 1

\* C4: every codepoint c a bidirectional tier covers, decoded to m, had
\* lower[c] = <<m>> and upper[m] = <<c>> when that tier's stage began; a pair
\* range decodes c to c + 1.
C4_BidirectionalRoundTrip ==
    /\ Len(snap) >= 1 =>
         \A j \in 1..Len(character_case_ranges[2]) :
           \A i \in 0..(character_case_ranges[2][j] - 1) :
             LET c == character_case_ranges[1][2 * j - 1] + i
                 m == character_case_ranges[1][2 * j] + i
             IN Maps(LowerAt(1), c, <<m>>) /\ Maps(UpperAt(1), m, <<c>>)
    /\ Len(snap) >= 2 =>
         \A j \in 1..Len(character_pair_ranges[2]) :
           \A k \in 0..character_pair_ranges[2][j] :
             2 * k < character_pair_ranges[2][j] =>
               LET c == character_pair_ranges[1][j] + 2 * k
               IN Maps(LowerAt(2), c, <<c + 1>>) /\ Maps(UpperAt(2), c + 1, <<c>>)
    /\ Len(snap) >= 3 =>
         \A j \in 1..(Len(character_pairs) \div 2) :
             LET c == character_pairs[2 * j - 1]
                 m == character_pairs[2 * j]
             IN Maps(LowerAt(3), c, <<m>>) /\ Maps(UpperAt(3), m, <<c>>)

\* A run that emitted a pair range and an isolated pair.
C4_Witness ==
    /\ pc = "done"
    /\ Len(character_pair_ranges[2]) >= 1
    /\ Len(character_pairs) >= 2

----------------------------------------------------------------------------
\* Which entries of a tier cover a codepoint.  A tier covers lower-case keys,
\* upper-case keys, or (the three bidirectional tiers) both.

\* Entries of a range table <<flat, lengths>>, w flat elements per entry,
\* whose element at position pos, taken as the start of a run of the entry's
\* length, covers c.
RangeCover(t, w, pos, c) ==
    {j \in 1..Len(t[2]) : t[1][w * (j - 1) + pos] <= c /\ c < t[1][w * (j - 1) + pos] + t[2][j]}

\* Pairs <<entry, member>> of character_pair_ranges covering c as the member
\* at start + side + 2k (side 0: the lower-case key, side 1: the upper-case key).
PairRangeCover(side, c) ==
    UNION { { <<j, k>> : k \in {k \in 0..character_pair_ranges[2][j] :
                                  /\ 2 * k < character_pair_ranges[2][j]
                                  /\ c = character_pair_ranges[1][j] + side + 2 * k} }
            : j \in 1..Len(character_pair_ranges[2]) }

\* Entries of character_pairs with c as first (side 0) or second (side 1) member.
PairCover(side, c) ==
    {j \in 1..(Len(character_pairs) \div 2) : character_pairs[2 * j - 1 + side] = c}

\* The entries <<arity, index>> of a conversions table <<flat, counters>>.
ConvEntries(t) ==
    {ke \in (1..Len(t[2])) \X (1..Len(t[1])) : ke[2] <= t[2][ke[1]]}

RECURSIVE ConvBucketStart(_, _)
\* The flat position before the first element of bucket k.
ConvBucketStart(t, k) ==
    IF k = 1 THEN 0 ELSE ConvBucketStart(t, k - 1) + t[2][k - 1] * k

\* The flat position of the key of entry <<k, e>>; its outputs follow it.
ConvKeyPos(t, ke) == ConvBucketStart(t, ke[1]) + (ke[2] - 1) * (ke[1] + 1) + 1
ConvKey(t, ke) == t[1][ConvKeyPos(t, ke)]
ConvOutputs(t, ke) == SubSeq(t[1], ConvKeyPos(t, ke) + 1, ConvKeyPos(t, ke) + ke[1])

ConvCover(t, c) == {ke \in ConvEntries(t) : ConvKey(t, ke) = c}

\* How many entries of all tiers cover the lower-case key c / the upper-case key c.
LowerCoverCount(c) ==
    Cardinality(RangeCover(character_case_ranges, 2, 1, c))
    + Cardinality(PairRangeCover(0, c))
    + Cardinality(PairCover(0, c))
    + Cardinality(RangeCover(lower_case_ranges, 2, 1, c))
    + Cardinality(ConvCover(lower_case_conversions, c))

UpperCoverCount(c) ==
    Cardinality(RangeCover(character_case_ranges, 2, 2, c))
    + Cardinality(PairRangeCover(1, c))
    + Cardinality(PairCover(1, c))
    + Cardinality(RangeCover(upper_case_special_ranges, 3, 1, c))
    + Cardinality(ConvCover(upper_case_conversions, c))

----------------------------------------------------------------------------
\* C5 (as claimed): every special range (start, first_out_start, second_out)
\* of length L has start+i mapped to exactly <<first_out_start+i, second_out>>
\* in the upper-case map extract_special_ranges began with, for all i < L.
C5_SpecialRangeSound ==
    Len(snap) >= 4 =>
      \A j \in 1..Len(upper_case_special_ranges[2]) :
        \A i \in 0..(upper_case_special_ranges[2][j] - 1) :
          Maps(UpperAt(4), upper_case_special_ranges[1][3 * j - 2] + i,
               <<upper_case_special_ranges[1][3 * j - 1] + i,
                 upper_case_special_ranges[1][3 * j]>>)

\* lower[c] = c + 1 and upper[c + 1] = c in the input.
SwapPair(c) == Maps(LowerAt(1), c, <<c + 1>>) /\ Maps(UpperAt(1), c + 1, <<c>>)

\* A swap pair with no swap pair two positions before or after it, and not
\* next to a bidirectional neighbour of the same distance.
IsolatedSwapPair(c) ==
    /\ SwapPair(c)
    /\ ~SwapPair(c - 2) /\ ~SwapPair(c + 2)
    /\ ~SwapPair(c - 1) /\ ~SwapPair(c + 1)

\* C6 (as claimed): an isolated swap pair is never emitted in
\* character_pair_ranges, and once character_pairs is emitted it holds
\* (c, c + 1).
C6_IsolatedPairNotInPairRanges ==
    Len(snap) >= 1 =>
      \A c \in DOMAIN LowerAt(1) :
        IsolatedSwapPair(c) =>
          /\ PairRangeCover(0, c) = {}
          /\ (Len(snap) >= 3 /\ pc # "error") =>
               \E j \in PairCover(0, c) : character_pairs[2 * j] = c + 1


\* lower[c] = c + d and upper[c + d] = c in the input.
BidiAtDistance(c, d) == Maps(LowerAt(1), c, <<c + d>>) /\ Maps(UpperAt(1), c + d, <<c>>)

MaximalUniformRun(s, n, d) ==
    /\ n >= 2
    /\ \A i \in 0..(n - 1) : BidiAtDistance(s + i, d)
    /\ ~BidiAtDistance(s - 1, d)
    /\ ~BidiAtDistance(s + n, d)

\* The runs of the input: the start, the length and the distance of each.
MaximalUniformRuns ==
    {r \in (DOMAIN LowerAt(1)) \X (2..Cardinality(DOMAIN LowerAt(1))) :
        /\ Len(LowerAt(1)[r[1]]) = 1
        /\ MaximalUniformRun(r[1], r[2], LowerAt(1)[r[1]][1] - r[1])}

\* C7: a maximal block s..s+n-1 (n >= 2) of codepoints bidirectionally mapped
\* with one distance d is emitted as exactly one character_case_ranges entry
\* (s, s+d) of length n, and no codepoint of the block is covered by any other
\* entry of any tier, in any later state.
C7_MaximalUniformRun ==
    (Len(snap) >= 1) =>
      \A r \in MaximalUniformRuns :
        LET s == r[1]
            n == r[2]
            d == LowerAt(1)[s][1] - s
        IN /\ \E j \in 1..Len(character_case_ranges[2]) :
                /\ character_case_ranges[1][2 * j - 1] = s
                /\ character_case_ranges[1][2 * j] = s + d
                /\ character_case_ranges[2][j] = n
           /\ \A i \in 0..(n - 1) :
                /\ LowerCoverCount(s + i) = 1
                /\ UpperCoverCount(s + d + i) = 1

\* A finished run whose input held such a block next to a bidirectional
\* neighbour of another distance.
C7_Witness ==
    /\ pc = "done"
    /\ \E r \in MaximalUniformRuns :
         \/ IsBidirectionalConversion(r[1] - 1, LowerAt(1), UpperAt(1))
         \/ IsBidirectionalConversion(r[1] + r[2], LowerAt(1), UpperAt(1))

\* c has a two-codepoint output with the given first-codepoint distance and
\* second codepoint when extract_special_ranges begins.
SpecialMember(c, off, second) ==
    /\ c \in DOMAIN UpperAt(4)
    /\ Len(UpperAt(4)[c]) = 2
    /\ UpperAt(4)[c][1] - c = off
    /\ UpperAt(4)[c][2] = second

MaximalSpecialRun(s, n) ==
    LET off == UpperAt(4)[s][1] - s
        second == UpperAt(4)[s][2]
    IN /\ Len(UpperAt(4)[s]) = 2
       /\ \A i \in 0..(n - 1) : SpecialMember(s + i, off, second)
       /\ ~SpecialMember(s - 1, off, second)
       /\ ~SpecialMember(s + n, off, second)

\* C8 (as claimed): a maximal run s..s+n-1 (n >= 2) of one-to-two mappings
\* with one second codepoint and one first-codepoint distance, present when
\* extract_special_ranges runs, makes the call complete and emit exactly one
\* entry for the run: (s, first output of s, the shared second codepoint).
C8_SpecialRunEmitted ==
    (Len(snap) >= 4) =>
      \A s \in DOMAIN UpperAt(4) : \A n \in 2..Cardinality(DOMAIN UpperAt(4)) :
        MaximalSpecialRun(s, n) =>
          /\ err = "none"
          /\ Cardinality({j \in 1..Len(upper_case_special_ranges[2]) :
                 /\ upper_case_special_ranges[1][3 * j - 2] >= s
                 /\ upper_case_special_ranges[1][3 * j - 2] < s + n}) = 1
          /\ \E j \in 1..Len(upper_case_special_ranges[2]) :
                 /\ upper_case_special_ranges[1][3 * j - 2] = s
                 /\ upper_case_special_ranges[1][3 * j - 1] = UpperAt(4)[s][1]
                 /\ upper_case_special_ranges[1][3 * j] = UpperAt(4)[s][2]


----------------------------------------------------------------------------
\* Every value of m is 1 to MaxArity codepoints long.
ArityOK(m) == \A c \in DOMAIN m : Len(m[c]) >= 1 /\ Len(m[c]) <= MaxArity

\* A well-formed map: keys and output codepoints in [MinCP, MaxCP), values 1
\* to MaxArity codepoints long.
WellFormed(m) ==
    /\ ArityOK(m)
    /\ \A c \in DOMAIN m :
         /\ c >= MinCP /\ c < MaxCP
         /\ \A i \in 1..Len(m[c]) : m[c][i] >= MinCP /\ m[c][i] < MaxCP

\* The seven stages have run to their end.
PipelineDone == pc \in {"check", "main", "done"}

\* C1: when the seven stages have run on maps whose values are 1 to 3
\* codepoints long, every key of the input lower-case map and every key of the
\* input upper-case map is covered by exactly one entry of exactly one tier.
C1_Partition ==
    (PipelineDone /\ ArityOK(LowerAt(1)) /\ ArityOK(UpperAt(1))) =>
      /\ \A c \in DOMAIN LowerAt(1) : LowerCoverCount(c) = 1
      /\ \A c \in DOMAIN UpperAt(1) : UpperCoverCount(c) = 1

\* A finished run on such maps that used a bidirectional tier, the special
\* ranges and the residual buckets.
C1_Witness ==
    /\ pc = "done"
    /\ ArityOK(LowerAt(1)) /\ ArityOK(UpperAt(1))
    /\ Len(character_pair_ranges[2]) >= 1
    /\ Len(upper_case_special_ranges[2]) >= 1
    /\ lower_case_conversions[1] # <<>>
    /\ upper_case_conversions[1] # <<>>

\* C2 (as claimed): on well-formed input the pipeline runs to its end, and
\* both maps are empty when it has.
C2_EmptyAfterPipeline ==
    (Len(snap) >= 1 /\ WellFormed(LowerAt(1)) /\ WellFormed(UpperAt(1))) =>
      /\ pc # "error"
      /\ PipelineDone => (DOMAIN lower_case = {} /\ DOMAIN upper_case = {})

\* How many keys of m have a value of k codepoints.
ArityCount(m, k) == Cardinality({c \in DOMAIN m : Len(m[c]) = k})

\* The conversions table t is the bucketing of the map m: the counters count
\* the keys of each arity, every key of arity 1 to 3 is one entry of the bucket
\* of its arity with its outputs, and each bucket ascends.
BucketsOK(t, m) ==
    /\ Len(t[2]) = MaxArity
    /\ \A k \in 1..MaxArity : t[2][k] = ArityCount(m, k)
    /\ Len(t[1]) = ConvBucketStart(t, MaxArity + 1)
    /\ \A c \in DOMAIN m :
         Len(m[c]) <= MaxArity =>
           /\ Cardinality(ConvCover(t, c)) = 1
           /\ \A ke \in ConvCover(t, c) : ke[1] = Len(m[c]) /\ ConvOutputs(t, ke) = m[c]
    /\ \A ke \in ConvEntries(t) :
         ke[2] > 1 => ConvKey(t, <<ke[1], ke[2] - 1>>) < ConvKey(t, ke)

\* C9: extract_conversions buckets every key left in its map by arity, in
\* ascending order, with counters equal to the bucket sizes; a key with a
\* three-codepoint lower-case mapping is covered by no earlier tier and is in
\* the arity-3 bucket of lower_case_conversions.
C9_ResidualBucketing ==
    /\ Len(snap) >= 6 => BucketsOK(lower_case_conversions, LowerAt(6))
    /\ Len(snap) >= 7 => BucketsOK(upper_case_conversions, UpperAt(7))
    /\ Len(snap) >= 1 =>
         \A c \in DOMAIN LowerAt(1) :
           Len(LowerAt(1)[c]) = MaxArity =>
             /\ RangeCover(character_case_ranges, 2, 1, c) = {}
             /\ PairRangeCover(0, c) = {}
             /\ PairCover(0, c) = {}
             /\ RangeCover(lower_case_ranges, 2, 1, c) = {}
             /\ Len(snap) >= 6 =>
                  /\ \E ke \in ConvCover(lower_case_conversions, c) : ke[1] = MaxArity
                  /\ lower_case_conversions[2][MaxArity] >= 1

\* A finished run whose lower-case residue filled all three buckets.
C9_Witness ==
    /\ pc = "done"
    /\ \A k \in 1..MaxArity : lower_case_conversions[2][k] >= 1

\* C10 (as claimed): a map that is not empty after the seventh stage ends
\* table assembly in an error, and the tables are not handed on.
C10_CompletenessEnforced ==
    pc \in {"main", "done"} => (DOMAIN lower_case = {} /\ DOMAIN upper_case = {})

\* C10 (amended): a map that is not empty after the seventh stage is reported
\* by a warning naming it and by nothing else: the constructor returns
\* without an error and main() hands the tables to the output step.
C10_WarningOnly ==
    /\ pc \in {"main", "done"} =>
         /\ ("lowercase" \in warned) = (DOMAIN lower_case # {})
         /\ ("uppercase" \in warned) = (DOMAIN upper_case # {})
         /\ err = "none"
    /\ pc = "check" => ENABLED CheckAllExtracted
    /\ pc = "main" => ENABLED MainGenerate
    /\ pc = "done" => generated

\* The tables were handed on although the upper-case map was not empty.
C10_Witness ==
    /\ generated
    /\ DOMAIN upper_case # {}
    /\ warned = {"uppercase"}

----------------------------------------------------------------------------
\* extract_character_pairs, seen from its input and its table.

\* c and its single mapped codepoint are mapping values of each other.
Bidirectional(c, lo, up) ==
    \E m \in DOMAIN up : Maps(lo, c, <<m>>) /\ Maps(up, m, <<c>>)

\* The codepoints that were bidirectional when extract_character_pairs began.
PairsInput == {c \in DOMAIN LowerAt(3) : Bidirectional(c, LowerAt(3), UpperAt(3))}

\* C11: once extract_character_pairs has run, in that state and in every later
\* one, no key of the lower-case map is bidirectional; character_pairs holds
\* one entry (c, lower[c]) for every codepoint that was bidirectional when the
\* stage began and no other entry, in ascending order of c; and c is gone from
\* the lower-case map and its mapped codepoint from the upper-case map.
C11_SingletonPairs ==
    Len(snap) >= 3 =>
      /\ \A c \in DOMAIN lower_case : ~Bidirectional(c, lower_case, upper_case)
      /\ Len(character_pairs) = 2 * Cardinality(PairsInput)
      /\ \A c \in PairsInput :
           /\ Cardinality(PairCover(0, c)) = 1
           /\ \A j \in PairCover(0, c) : <<character_pairs[2 * j]>> = LowerAt(3)[c]
           /\ c \notin DOMAIN lower_case
           /\ LowerAt(3)[c][1] \notin DOMAIN upper_case
      /\ \A j \in 1..((Len(character_pairs) \div 2) - 1) :
           character_pairs[2 * j - 1] < character_pairs[2 * j + 1]

\* The pipeline has finished after extract_character_pairs emitted two pairs
\* and left a key that is not bidirectional in the lower-case map.
C11_Witness ==
    /\ pc = "done"
    /\ Cardinality(PairsInput) = 2
    /\ Len(character_pairs) = 4
    /\ DOMAIN LowerAt(4) # {}

----------------------------------------------------------------------------
\* C12: on maps as read_case_mappings builds them, no stage ends in an
\* exception: every deletion of extract_ranges, extract_character_pair_ranges,
\* extract_character_pairs and extract_special_ranges finds its key in the map
\* it deletes from (no KeyError), and extract_special_ranges has assigned
\* in_range before it reads it (no UnboundLocalError).
C12_NoStageFaults ==
    (Len(snap) >= 1 /\ WellFormed(LowerAt(1)) /\ WellFormed(UpperAt(1))) =>
      /\ err # "KeyError"
      /\ err # "UnboundLocalError"

====
